---------------------------- MODULE Spec2Model ----------------------------
(***************************************************************************)
(* BleachBit prototype GUI (src/bleachbit_gui.py).                         *)
(*                                                                         *)
(* Two parts of BleachBitWindow carry state:                               *)
(*   - the options pane: a two-level Gtk.TreeStore shown through a         *)
(*     TreeModelFilter whose visible function is on_search_changed_filter, *)
(*     re-run by on_search_entry_changed on every edit of the search entry;*)
(*   - the results pane: a Gtk.ListStore that on_preview_clicked and       *)
(*     on_clean_clicked clear, and that background threads running         *)
(*     _populate_data append to, switching the Abort button on and off.    *)
(*                                                                         *)
(* Strings are sequences of characters.  Every GTK call is one atomic      *)
(* step; a thread is pre-empted only between steps.                        *)
(***************************************************************************)
EXTENDS Integers, Sequences, FiniteSets

VARIABLES
    treestore,          \* self.treestore_options: the categories, each with its items
    entry_text,         \* the text held by the self.search_entry widget
    search_entry_text,  \* self.search_entry_text: None, or the text last copied from the entry
    visible,            \* the option_filter's verdict per row: iter -> BOOLEAN
    pending,            \* rows a running refilter() has still to pass to the visible function
    liststore,          \* self.liststore: the rows of the results list
    abort_sensitive,    \* self.abort_button's sensitivity
    threads             \* the threads populate_data has started, in order of start

vars == <<treestore, entry_text, search_entry_text, visible, pending,
          liststore, abort_sensitive, threads>>

optionVars == <<treestore, entry_text, search_entry_text, visible, pending>>
resultVars == <<liststore, abort_sensitive, threads>>

----------------------------------------------------------------------------
(* Bounds of the model *)

\* Longest text typed into the search entry.
MaxLen == 2
\* Most categories (top-level rows) of a tree.
MaxRoots == 2
\* Most items under one category.
MaxChildren == 2
\* Most Preview/Clean clicks in one run.
MaxClicks == 2
\* random.randint(5, 50) is drawn from randint_lo .. randint_lo + NumFilesSpan.
NumFilesSpan == 0

----------------------------------------------------------------------------
(* Characters and strings *)

\* "ls" is the long s (U+017F), a lower-case letter whose upper case is "S".
Alphabet == {"s", "S", "ls", "a"}

\* Python's None.
None == <<"None">>

\* str.lower() on one character; the long s is lower case already.
LowerChar(c) == IF c = "S" THEN "s" ELSE IF c = "A" THEN "a" ELSE c

\* str.lower(): character by character (the alphabet has no character that
\* lower-cases to more than one, and no final sigma).
lower(s) == [i \in 1..Len(s) |-> LowerChar(s[i])]

\* The 0-based offsets at which sub occurs in s.
Occurrences(s, sub) ==
    {i \in 0..(Len(s) - Len(sub)) : SubSeq(s, i + 1, i + Len(sub)) = sub}

\* str.find(sub): the lowest offset of sub in s, or -1.
find(s, sub) ==
    LET found == Occurrences(s, sub)
    IN  IF found = {} THEN -1 ELSE CHOOSE i \in found : \A j \in found : i <= j

\* Python truthiness of self.search_entry_text: None and "" are falsy.
Truthy(text) == text # None /\ text # <<>>

\* Every text of at most MaxLen characters.
Texts == UNION {[1..n -> Alphabet] : n \in 0..MaxLen}

----------------------------------------------------------------------------
(* The options tree *)

\* Labels the sample data is drawn from: plain letters, as in the program's
\* own sample data.
LabelPool == << <<"S", "a">>, <<"a", "s">>, <<"a">> >>

\* The elements of a set of numbers in increasing order.
SortedSeq(S) ==
    CHOOSE q \in [1..Cardinality(S) -> S] : \A i, j \in 1..Cardinality(S) : i < j => q[i] < q[j]

\* treestore_options.append(parent_iter, [child, True]) for each child.
ChildRows(C) ==
    [k \in 1..Cardinality(C) |-> [label |-> LabelPool[SortedSeq(C)[k]], enabled |-> TRUE]]

\* treestore_options.append(None, [parent, True]) followed by its children.
CategoryRow(r, C) ==
    [label |-> LabelPool[r], enabled |-> TRUE, children |-> ChildRows(C)]

PoolIndex == 1..Len(LabelPool)
RootSets == {R \in SUBSET PoolIndex : Cardinality(R) \in 1..MaxRoots}
ChildSets == {C \in SUBSET PoolIndex : Cardinality(C) <= MaxChildren}

\* populate_options_pane over every sample_data within the bounds: category
\* names are distinct (dict keys), item names are distinct within a category.
SampleStores ==
    UNION {{[k \in 1..Cardinality(R) |-> CategoryRow(SortedSeq(R)[k], f[SortedSeq(R)[k]])] :
               f \in [R -> ChildSets]} : R \in RootSets}

\* A Gtk.TreeIter is modelled by the row's path: <<r>> or <<r, c>>.
NoIter == <<>>

Iters(model) ==
    {<<r>> : r \in 1..Len(model)}
        \cup UNION {{<<r, c>> : c \in 1..Len(model[r].children)} : r \in 1..Len(model)}

\* The row an iter points to.
RowAt(model, iter) ==
    IF Len(iter) = 1 THEN model[iter[1]] ELSE model[iter[1]].children[iter[2]]

\* model.get_value(iter, column): column 0 is the label, column 1 the flag.
get_value(model, iter, column) ==
    IF column = 0 THEN RowAt(model, iter).label ELSE RowAt(model, iter).enabled

\* model.iter_parent(iter): None for a top-level row.
iter_parent(model, iter) == IF Len(iter) = 2 THEN <<iter[1]>> ELSE NoIter

\* model.iter_children(iter): the first child, None when there is none.
iter_children(model, iter) ==
    IF Len(iter) = 1 /\ Len(model[iter[1]].children) > 0 THEN <<iter[1], 1>> ELSE NoIter

\* model.iter_next(iter): the next row at the same level, None after the last.
iter_next(model, iter) ==
    IF Len(iter) = 1
    THEN IF iter[1] < Len(model) THEN <<iter[1] + 1>> ELSE NoIter
    ELSE IF iter[2] < Len(model[iter[1]].children) THEN <<iter[1], iter[2] + 1>> ELSE NoIter

\* The rows in the order gtk_tree_model_foreach visits them: each category
\* followed by its items.
RECURSIVE ForeachFrom(_, _)
ForeachFrom(model, r) ==
    IF r > Len(model) THEN <<>>
    ELSE <<<<r>>>> \o [c \in 1..Len(model[r].children) |-> <<r, c>>] \o ForeachFrom(model, r + 1)

foreach(model) == ForeachFrom(model, 1)

----------------------------------------------------------------------------
(* on_search_changed_filter *)

\* `x.lower().find(text.lower()) != -1`
Matches(name, text) == find(lower(name), lower(text)) # -1

\* The while loop over the children of a row.
RECURSIVE ChildLoop(_, _, _)
ChildLoop(model, child_iter, text) ==
    IF child_iter = NoIter THEN FALSE
    ELSE IF Matches(get_value(model, child_iter, 0), text) THEN TRUE
    ELSE ChildLoop(model, iter_next(model, child_iter), text)

\* The parent test.
ParentMatches(model, iter, text) ==
    LET parent_iter == iter_parent(model, iter)
    IN  parent_iter # NoIter /\ Matches(get_value(model, parent_iter, 0), text)

\* Mutant: the empty-search test returns False.
filter_empty_hides(model, iter, text) ==
    IF ~Truthy(text) THEN FALSE
    ELSE IF Matches(get_value(model, iter, 0), text) THEN TRUE
    ELSE IF ParentMatches(model, iter, text) THEN TRUE
    ELSE ChildLoop(model, iter_children(model, iter), text)

\* Mutant: rows whose "Selected" flag (column 1) is off are hidden.
filter_reads_enabled(model, iter, text) ==
    IF ~Truthy(text) THEN TRUE
    ELSE IF ~get_value(model, iter, 1) THEN FALSE
    ELSE IF Matches(get_value(model, iter, 0), text) THEN TRUE
    ELSE IF ParentMatches(model, iter, text) THEN TRUE
    ELSE ChildLoop(model, iter_children(model, iter), text)

\* Mutant: the loop over the children is left out.
filter_without_child_loop(model, iter, text) ==
    IF ~Truthy(text) THEN TRUE
    ELSE IF Matches(get_value(model, iter, 0), text) THEN TRUE
    ELSE IF ParentMatches(model, iter, text) THEN TRUE
    ELSE FALSE

\* The value the callback returns for a row, given self.search_entry_text.
on_search_changed_filter(model, iter, text) ==
    IF ~Truthy(text) THEN TRUE
    ELSE IF Matches(get_value(model, iter, 0), text) THEN TRUE
    ELSE IF ParentMatches(model, iter, text) THEN TRUE
    ELSE ChildLoop(model, iter_children(model, iter), text)

----------------------------------------------------------------------------
(* The options pane *)

\* create_options_pane: the search text starts as None, the filter is
\* attached, then populate_options_pane inserts the rows.
InitOptions ==
    /\ treestore \in SampleStores
    /\ entry_text = <<>>
    /\ search_entry_text = None
    /\ visible = [n \in Iters(treestore) |-> on_search_changed_filter(treestore, n, None)]
    /\ pending = <<>>

\* Mutant: the text is copied but refilter() is not called.
changed_without_refilter(text) ==
    /\ pending = <<>>
    /\ text # entry_text
    /\ entry_text' = text
    /\ search_entry_text' = text
    /\ UNCHANGED <<treestore, visible, pending>>
    /\ UNCHANGED resultVars

\* The user edits the search entry to `text`; Gtk emits "changed" and
\* on_search_entry_changed copies the text and starts refilter().
on_search_entry_changed(text) ==
    /\ pending = <<>>
    /\ text # entry_text
    /\ entry_text' = text
    /\ search_entry_text' = text
    /\ pending' = foreach(treestore)
    /\ UNCHANGED <<treestore, visible>>
    /\ UNCHANGED resultVars

\* The store with the flag (column 1) of the row at iter set to b.
set_enabled(model, iter, b) ==
    IF Len(iter) = 1 THEN [model EXCEPT ![iter[1]].enabled = b]
    ELSE [model EXCEPT ![iter[1]].children[iter[2]].enabled = b]

\* Mutant: the callback also deselects the rows it hides.
visible_func_deselects_hidden ==
    /\ pending # <<>>
    /\ LET shown == on_search_changed_filter(treestore, Head(pending), search_entry_text)
       IN  /\ visible' = [visible EXCEPT ![Head(pending)] = shown]
           /\ treestore' = IF shown THEN treestore ELSE set_enabled(treestore, Head(pending), FALSE)
    /\ pending' = Tail(pending)
    /\ UNCHANGED <<entry_text, search_entry_text>>
    /\ UNCHANGED resultVars

\* refilter() passes the next row to the visible function and keeps its verdict.
option_filter_visible_func ==
    /\ pending # <<>>
    /\ visible' = [visible EXCEPT
                     ![Head(pending)] = on_search_changed_filter(treestore, Head(pending), search_entry_text)]
    /\ pending' = Tail(pending)
    /\ UNCHANGED <<treestore, entry_text, search_entry_text>>
    /\ UNCHANGED resultVars

NextOptions ==
    \/ \E text \in Texts : on_search_entry_changed(text)
    \/ option_filter_visible_func

----------------------------------------------------------------------------
(* The results pane *)

\* random.randint(5, 50)
randint_lo == 5
randint_hi == 50

NumFilesChoices == {n \in randint_lo..randint_hi : n <= randint_lo + NumFilesSpan}

\* The `result` column: drawn by result_random for a clean run, "" for a preview.
Results(is_delete) == IF is_delete THEN {"error", "deleted", "shred"} ELSE {""}

\* create_toolbar and create_results_pane: Abort starts insensitive, the
\* list empty, no thread started.
InitResults ==
    /\ liststore = {}
    /\ abort_sensitive = FALSE
    /\ threads = <<>>

\* populate_data: start a thread that will run _populate_data(is_delete).
populate_data(is_delete) ==
    threads' = Append(threads, [is_delete |-> is_delete, pc |-> "start", num_files |-> 0, i |-> 0])

on_preview_clicked ==
    /\ Len(threads) < MaxClicks
    /\ liststore' = {}
    /\ populate_data(FALSE)
    /\ UNCHANGED abort_sensitive
    /\ UNCHANGED optionVars

on_clean_clicked ==
    /\ Len(threads) < MaxClicks
    /\ liststore' = {}
    /\ populate_data(TRUE)
    /\ UNCHANGED abort_sensitive
    /\ UNCHANGED optionVars

\* _populate_data, up to the loop: Abort is made sensitive and num_files drawn.
populate_data_begin(w) ==
    /\ threads[w].pc = "start"
    /\ abort_sensitive' = TRUE
    /\ \E n \in NumFilesChoices :
           threads' = [threads EXCEPT ![w].pc = "loop", ![w].num_files = n]
    /\ UNCHANGED liststore
    /\ UNCHANGED optionVars

\* Mutant: the loop stops one pass early.
range_one_short(t) == t.i = t.num_files - 1

\* `for i in range(num_files)` has run num_files times.
range_exhausted(t) == t.i = t.num_files

\* One pass of the loop: a result is drawn, the thread sleeps, the row is
\* appended.  Of a row the model keeps the action and the thread that
\* appended it; the list is kept as the set of its distinct rows.
populate_data_append(w) ==
    /\ threads[w].pc = "loop"
    /\ ~range_exhausted(threads[w])
    /\ \E result \in Results(threads[w].is_delete) :
           liststore' = liststore \cup {[thread |-> w, action |-> result]}
    /\ threads' = [threads EXCEPT ![w].i = @ + 1]
    /\ UNCHANGED abort_sensitive
    /\ UNCHANGED optionVars

\* After the loop: Abort is made insensitive and the thread ends.
populate_data_end(w) ==
    /\ threads[w].pc = "loop"
    /\ range_exhausted(threads[w])
    /\ abort_sensitive' = FALSE
    /\ threads' = [threads EXCEPT ![w].pc = "done"]
    /\ UNCHANGED liststore
    /\ UNCHANGED optionVars

\* A step of thread w.
thread_run(w) ==
    \/ populate_data_begin(w)
    \/ populate_data_append(w)
    \/ populate_data_end(w)

NextResults ==
    \/ on_preview_clicked
    \/ on_clean_clicked
    \/ \E w \in 1..Len(threads) : populate_data_begin(w)
    \/ \E w \in 1..Len(threads) : populate_data_append(w)
    \/ \E w \in 1..Len(threads) : populate_data_end(w)

----------------------------------------------------------------------------
(* Specifications *)

Init == InitOptions /\ InitResults

Next == NextOptions \/ NextResults

\* The whole window.
Spec == Init /\ [][Next]_vars

\* The two panes share no state, so each is checked on its own: the options
\* pane over every sample tree with the results pane at rest, ...
SpecOptions == Init /\ [][NextOptions]_vars

\* ... and the results pane over one tree with the search entry untouched.
InitOneTree == Init /\ treestore = <<CategoryRow(1, {1, 2})>>

SpecResults == InitOneTree /\ [][NextResults]_vars

\* time.sleep returns and the interpreter schedules every started thread, so
\* while some thread can take a step, a thread does take one.  (Fairness for
\* each thread alone is the stronger assumption; this one is enough.)
FairSpecResults ==
    SpecResults /\ WF_vars(\E w \in 1..Len(threads) : thread_run(w))

----------------------------------------------------------------------------
(* Properties of the options pane *)

\* The rows the running refilter() has not yet re-queried.
PendingRows == {pending[k] : k \in 1..Len(pending)}

\* The rows whose verdict was computed from the current search text.
Queried == Iters(treestore) \ PendingRows

\* The items of a category row (none for an item).
ChildIters(model, iter) ==
    IF Len(iter) = 1 THEN {<<iter[1], c>> : c \in 1..Len(model[iter[1]].children)} ELSE {}

\* Unicode case folding of one character: "S" and the long s both fold to "s".
CaseFoldChar(c) == IF c \in {"S", "ls"} THEN "s" ELSE IF c = "A" THEN "a" ELSE c

casefold(s) == [i \in 1..Len(s) |-> CaseFoldChar(s[i])]

\* name contains text, both case-folded.
FoldContains(name, text) == Occurrences(casefold(name), casefold(text)) # {}

\* name contains text, both lower-cased.
LowerContains(name, text) == Occurrences(lower(name), lower(text)) # {}

\* The three-way visibility rule for a row, for a given containment test.
RuleFolded(model, iter, text) ==
    \/ FoldContains(get_value(model, iter, 0), text)
    \/ Len(iter) = 2 /\ FoldContains(get_value(model, <<iter[1]>>, 0), text)
    \/ \E c \in ChildIters(model, iter) : FoldContains(get_value(model, c, 0), text)

RuleLowered(model, iter, text) ==
    \/ LowerContains(get_value(model, iter, 0), text)
    \/ Len(iter) = 2 /\ LowerContains(get_value(model, <<iter[1]>>, 0), text)
    \/ \E c \in ChildIters(model, iter) : LowerContains(get_value(model, c, 0), text)

\* C1: for a non-empty search term, the verdict for a row is true exactly
\* when the row's own label, its parent's label or the label of one of its
\* direct children contains the term, compared case-folded.
C1_VisibilityRule ==
    Truthy(search_entry_text) =>
        \A n \in Queried : visible[n] = RuleFolded(treestore, n, search_entry_text)

\* The same rule with str.lower() as the comparison: what the callback computes.
VisibilityRuleLowered ==
    Truthy(search_entry_text) =>
        \A n \in Queried : visible[n] = RuleLowered(treestore, n, search_entry_text)

\* C2: while the search text is empty (None at start, or "" after the
\* entry was emptied) the callback returns true for every row, category or
\* item, and every row re-queried is shown.
C2_EmptyTermShowsAll ==
    ~Truthy(search_entry_text) =>
        \A n \in Iters(treestore) :
            /\ on_search_changed_filter(treestore, n, search_entry_text)
            /\ n \in Queried => visible[n]

\* A refilter for an entry emptied again has finished on a tree with items.
C2_Witness ==
    /\ search_entry_text = <<>>
    /\ pending = <<>>
    /\ \E n \in Iters(treestore) : Len(n) = 2

\* str.upper() on one character.
UpperChar(c) == IF c \in {"s", "ls"} THEN "S" ELSE IF c = "a" THEN "A" ELSE c

\* Two characters that are equal or the upper/lower-case form of one another.
CaseVariantChar(c, d) ==
    c = d \/ UpperChar(c) = d \/ UpperChar(d) = c \/ LowerChar(c) = d \/ LowerChar(d) = c

\* The texts that differ from text only in letter case.
CaseVariants(text) ==
    {u \in [1..Len(text) -> Alphabet] : \A k \in 1..Len(text) : CaseVariantChar(text[k], u[k])}

\* The store with every label upper-cased ("upper") or lower-cased ("lower").
RecasedLabel(label, how) ==
    [k \in 1..Len(label) |-> IF how = "upper" THEN UpperChar(label[k]) ELSE LowerChar(label[k])]

RecasedStore(model, how) ==
    [r \in 1..Len(model) |->
        [label |-> RecasedLabel(model[r].label, how),
         enabled |-> model[r].enabled,
         children |-> [c \in 1..Len(model[r].children) |->
                          [label |-> RecasedLabel(model[r].children[c].label, how),
                           enabled |-> model[r].children[c].enabled]]]]

\* C3: the verdict for a row is the same for every search term that differs
\* from the current one only in letter case, and for the tree whose labels
\* are re-cased.
C3_CaseInsensitive ==
    Truthy(search_entry_text) =>
        \A n \in Queried :
            /\ \A u \in CaseVariants(search_entry_text) :
                   on_search_changed_filter(treestore, n, u) = visible[n]
            /\ \A how \in {"upper", "lower"} :
                   on_search_changed_filter(RecasedStore(treestore, how), n, search_entry_text)
                       = visible[n]

\* C4: a call of the filter callback leaves the tree (structure, labels,
\* flags), the stored search text and the entry's text as they were.
C4_FilterCallFrame ==
    [][(pending # <<>> /\ pending' = Tail(pending)) =>
           /\ treestore' = treestore
           /\ search_entry_text' = search_entry_text
           /\ entry_text' = entry_text]_vars

\* The callback has hidden a row while other rows are still to be queried.
C4_Witness ==
    /\ pending # <<>>
    /\ Truthy(search_entry_text)
    /\ \E n \in Queried : ~visible[n]

\* The store with the flag of every row set by e.
WithEnabled(model, e) ==
    [r \in 1..Len(model) |->
        [label |-> model[r].label,
         enabled |-> e[<<r>>],
         children |-> [c \in 1..Len(model[r].children) |->
                          [label |-> model[r].children[c].label, enabled |-> e[<<r, c>>]]]]]

\* Flag assignments: within category r exactly the rows of S are selected,
\* every row of the other categories has flag b.
Flags(model, r, S, b) == [n \in Iters(model) |-> IF n[1] = r THEN n \in S ELSE b]

CategoryIters(model, r) == {n \in Iters(model) : n[1] = r}

\* C5: the verdict for a row is the same on every tree that differs from the
\* current one only in the "Selected" flags (those of the row's own category
\* set freely, those of the other categories all on or all off).
C5_IndependentOfEnabled ==
    pending = <<>> =>
        \A r \in 1..Len(treestore) :
            \A S \in SUBSET CategoryIters(treestore, r) : \A b \in BOOLEAN :
                LET other == WithEnabled(treestore, Flags(treestore, r, S, b))
                IN  \A n \in CategoryIters(treestore, r) :
                        on_search_changed_filter(other, n, search_entry_text) = visible[n]

\* A finished refilter that shows one row and hides another.
C5_Witness ==
    /\ pending = <<>>
    /\ Truthy(search_entry_text)
    /\ \E n, m \in Iters(treestore) : visible[n] /\ ~visible[m]

\* C6: once on_search_entry_changed and the refilter it starts have
\* finished, the stored search text is the entry's text and every row's
\* verdict is the callback's result for that text.
C6_RefilterTracksEntry ==
    pending = <<>> =>
        /\ search_entry_text # None => search_entry_text = entry_text
        /\ \A n \in Iters(treestore) :
               visible[n] = on_search_changed_filter(treestore, n, entry_text)

\* A refilter has finished for a text that hides a category and all its items.
C6_Witness ==
    /\ pending = <<>>
    /\ search_entry_text = entry_text
    /\ Truthy(entry_text)
    /\ \E r \in 1..Len(treestore) :
           /\ Len(treestore[r].children) > 0
           /\ \A n \in CategoryIters(treestore, r) : ~visible[n]

\* C10: for every tree and search text, when the callback returns true for
\* an item it returns true for the item's category, and once a refilter has
\* finished no shown item has a hidden category.
C10_VisibleItemHasVisibleCategory ==
    pending = <<>> =>
        \A n \in Iters(treestore) :
            Len(n) = 2 =>
                /\ on_search_changed_filter(treestore, n, search_entry_text)
                       => on_search_changed_filter(treestore, <<n[1]>>, search_entry_text)
                /\ visible[n] => visible[<<n[1]>>]

\* An item is shown only because it matches: its category does not match
\* and its sibling is hidden.
C10_Witness ==
    /\ pending = <<>>
    /\ Truthy(search_entry_text)
    /\ \E n, m \in Iters(treestore) :
           /\ Len(n) = 2 /\ Len(m) = 2 /\ n[1] = m[1]
           /\ visible[n] /\ ~visible[m]
           /\ ~Matches(get_value(treestore, <<n[1]>>, 0), search_entry_text)

----------------------------------------------------------------------------
(* Properties of the results pane *)

\* The thread started by the most recent click.
LatestThread == Len(threads)

\* C7: every row of the results list was appended by the thread the most
\* recent Preview/Clean click started; after a Preview click every row has
\* an empty action.
C7_RowsFromLatestClick ==
    \A row \in liststore :
        /\ row.thread = LatestThread
        /\ ~threads[LatestThread].is_delete => row.action = ""

\* C8: every thread a click starts ends, having appended as many rows as
\* the num_files it drew from 5..50; the rows carry "" for a preview run
\* and "error", "deleted" or "shred" for a clean run.
C8_ThreadRunsToCompletion ==
    /\ [](\A w \in 1..Len(threads) :
              /\ threads[w].pc = "done" =>
                     threads[w].i = threads[w].num_files /\ threads[w].num_files \in 5..50
              /\ \A row \in liststore :
                     row.thread = w =>
                         IF threads[w].is_delete
                         THEN row.action \in {"error", "deleted", "shred"}
                         ELSE row.action = "")
    /\ \A w \in 1..MaxClicks : <>[](Len(threads) >= w => threads[w].pc = "done")

\* A clean thread and a preview thread have both ended.
C8_Witness ==
    \E v, w \in 1..Len(threads) :
        /\ threads[v].pc = "done" /\ threads[v].is_delete
        /\ threads[w].pc = "done" /\ ~threads[w].is_delete

\* A thread is at work from set_sensitive(True) to set_sensitive(False).
AtWork(w) == threads[w].pc = "loop"

\* C9: the Abort button is sensitive exactly while some thread is at work.
C9_AbortWhileWorking ==
    abort_sensitive = (\E w \in 1..Len(threads) : AtWork(w))

=============================================================================
